---- MODULE Spec2Model ----
(***************************************************************************)
(* Transcript segmentation and translation dispatch of                     *)
(* LiveKit-ai-translation/server/main.py: the closures of entrypoint()     *)
(* (_extract_complete_sentences, _translate_sentences,                     *)
(* _delayed_translation, _forward_transcription, on_attributes_changed)    *)
(* over the variables they share, run by one asyncio event loop.           *)
(*                                                                         *)
(* A text is a sequence of characters.  A character is a one-element       *)
(* name: content letters, the space, and the terminal punctuation of the   *)
(* sentence pattern ("AQ" is the Arabic question mark U+061F, "AC" the     *)
(* Arabic comma U+060C).                                                   *)
(***************************************************************************)
EXTENDS Integers, Sequences, FiniteSets, TLC

\* ------------------------------------------------------------- bounds
MaxFinals == 2       \* FINAL_TRANSCRIPT events delivered, all tracks together
MaxCalls == 11       \* translate calls made on one Translator
MaxPieceLen == 2     \* characters of a text given to the extractor
MaxPieces == 2       \* texts given to the extractor one after the other

\* The audio tracks subscribed (on_track_subscribed, line 429-439): each
\* runs its own _forward_transcription loop over the same closure variables.
\* Two finals involve at most two tracks.
Tracks == {1, 2}

\* ------------------------------------------------------------- texts
Content == {"a", "b"}
SPACE == " "
Punct == {".", "!", "?", "AQ", "AC"}

\* The final transcripts the recognizer may deliver (before strip()).
Fragments ==
  { <<"a">>,
    <<SPACE, "b", ".">>,
    <<"a", ".", "b", "AQ", SPACE, "a">>,
    <<SPACE>> }

\* The interim transcripts the recognizer may deliver: some words, or blank.
Interims == { <<"a">>, <<SPACE>> }

\* str.strip()
RECURSIVE lstrip(_)
lstrip(s) == IF s # <<>> /\ Head(s) = SPACE THEN lstrip(Tail(s)) ELSE s

RECURSIVE rstrip(_)
rstrip(s) ==
  IF s # <<>> /\ s[Len(s)] = SPACE THEN rstrip(SubSeq(s, 1, Len(s) - 1)) ELSE s

\* mutant of strip: the trailing spaces are kept
strip_left_only(s) == lstrip(s)

strip(s) == rstrip(lstrip(s))

\* re.split(r'([.!?...]+)', text): content and punctuation-run tokens in
\* turn, content first and last (either may be empty).  parts is the list
\* built so far; its last element is the token being read, a content token
\* when the length is odd.
RECURSIVE re_split_from(_, _, _)
re_split_from(text, i, parts) ==
  LET n == Len(parts) IN
  IF i > Len(text)
  THEN IF n % 2 = 0 THEN Append(parts, <<>>) ELSE parts
  ELSE IF (text[i] \in Punct) = (n % 2 = 0)
       THEN re_split_from(text, i + 1,
                          [parts EXCEPT ![n] = Append(parts[n], text[i])])
       ELSE re_split_from(text, i + 1, Append(parts, <<text[i]>>))

re_split(text) == re_split_from(text, 1, << <<>> >>)

\* re.match(r'[.!?...]+', s): a punctuation run at the start of s
re_match(s) == s # <<>> /\ s[1] \in Punct

\* The while loop of _extract_complete_sentences, from index i (1-based).
RECURSIVE extract_loop(_, _, _)
extract_loop(parts, i, complete_sentences) ==
  IF i > Len(parts)
  THEN [sentences |-> complete_sentences, remaining |-> <<>>]
  ELSE IF i + 1 <= Len(parts) /\ re_match(parts[i + 1])
       THEN LET sentence == strip(parts[i] \o parts[i + 1]) IN
            extract_loop(parts, i + 2,
                         IF sentence # <<>>
                         THEN Append(complete_sentences, sentence)
                         ELSE complete_sentences)
       ELSE [sentences |-> complete_sentences, remaining |-> strip(parts[i])]

\* mutant of _extract_complete_sentences: the text after the last
\* sentence is not returned
_extract_drops_remaining(text) ==
  [sentences |-> extract_loop(re_split(text), 1, <<>>).sentences,
   remaining |-> <<>>]

_extract_complete_sentences(text) ==
  IF strip(text) = <<>>
  THEN [sentences |-> <<>>, remaining |-> <<>>]
  ELSE extract_loop(re_split(text), 1, <<>>)


Count(c, s) == Cardinality({k \in 1..Len(s) : s[k] = c})

\* ------------------------------------------------------------- registry
\* keys of the languages table (lines 91-99) and the source language
languages == {"ar", "en", "es", "fr", "de", "ja", "nl"}
source_language == "ar"

\* the captions_language values a participant may send ("" stands for an
\* absent attribute, "xx" for a code outside the table)
ReqCodes == {"", "ar", "nl", "fr", "xx"}

\* Translator.__init__: a context holding the system prompt, no user message
Translator(lang) ==
  [lang |-> lang, context |-> <<[role |-> "system", content |-> <<>>]>>,
   message_count |-> 0]

\* a message of a chat context
system_message == [role |-> "system", content |-> <<>>]
user_message(message) == [role |-> "user", content |-> message]

\* mutant of translate: the fresh branch (line 145-151) is lost, the
\* message is added to self.context whatever use_context is
translate_always_rolling(self, message, rolling) ==
  LET added == Append(self.context, user_message(message))
      count == self.message_count + 1
  IN IF count > 9
     THEN [self |-> [self EXCEPT !.context = <<system_message>>,
                                 !.message_count = 0],
           chat_ctx |-> <<system_message>>]
     ELSE [self |-> [self EXCEPT !.context = added,
                                 !.message_count = count],
           chat_ctx |-> added]

\* mutant of translate: the reset of line 138-142 is missing
translate_never_resets(self, message, rolling) ==
  LET added == Append(self.context, user_message(message)) IN
  IF rolling
  THEN [self |-> [self EXCEPT !.context = added,
                              !.message_count = self.message_count + 1],
        chat_ctx |-> added]
  ELSE [self |-> self,
        chat_ctx |-> <<system_message, user_message(message)>>]

\* Translator.translate, line 130-151, up to the call of llm.chat: the
\* translator afterwards and the context passed as chat_ctx.  rolling is
\* the value of use_context.
translate(self, message, rolling) ==
  IF rolling
  THEN LET added == Append(self.context, user_message(message))   \* 134
           count == self.message_count + 1                         \* 135
       IN IF count > 9                                             \* 138
          THEN [self |-> [self EXCEPT !.context = <<system_message>>,
                                      !.message_count = 0],
                chat_ctx |-> <<system_message>>]
          ELSE [self |-> [self EXCEPT !.context = added,
                                      !.message_count = count],
                chat_ctx |-> added]
  ELSE [self |-> self,                                             \* 146-151
        chat_ctx |-> <<system_message, user_message(message)>>]

\* the k-th sentence given to a translator: k letters and a full stop
NthSentence(k) == [j \in 1..k |-> "a"] \o <<".">>

\* ------------------------------------------------------------- state
VARIABLES
  accumulated_text,          \* line 214
  last_final_transcript,     \* line 215
  pending_translation_task,  \* line 217: 0 is None, else an index of flushes
  translators,               \* line 207: language code -> Translator
  flushes,                   \* the _delayed_translation tasks created so far
  tracks,                    \* the _forward_transcription task of each track
  nFinals,                   \* FINAL_TRANSCRIPT events delivered
  nDuplicates,               \* history: finals skipped as repeats
  accepted,                  \* history: content characters accepted
  translated,                \* history: content characters of the sentences
                             \* given to each language's translator
  appended,                  \* history: the finals appended to the buffer
  use_context,               \* line 109: Translator.use_context
  chat_ctx,                  \* the last call of llm.chat (line 144 / 151):
                             \* translator, message, context passed
  sent,                      \* history: translate calls made, per language
  lastReq,                   \* history: the captions_language handled last,
                             \* "none" before any and after a translate call
  ex_pieces,                 \* the texts given to the extractor in turn
  ex_sentences,              \* the sentences it returned, in order
  ex_remaining               \* the remainder it returned last

\* the variables of the translators' contexts and of the extractor taken
\* alone; the forwarding loops and flush tasks leave them as they are
aside ==
  <<use_context, chat_ctx, sent, ex_pieces, ex_sentences, ex_remaining>>

\* the variables of the session: closure state of entrypoint and its tasks
session ==
  <<accumulated_text, last_final_transcript, pending_translation_task,
    flushes, tracks, nFinals, nDuplicates, accepted, translated, appended>>

vars ==
  <<accumulated_text, last_final_transcript, pending_translation_task,
    translators, flushes, tracks, nFinals, nDuplicates, accepted, translated,
    appended, use_context, chat_ctx, sent, lastReq, ex_pieces, ex_sentences,
    ex_remaining>>

\* One run of _translate_sentences: the sentences, the index i of the
\* sentence whose gather is awaited (past the end once it has returned) and
\* the translate calls made so far, <<sentence index, language>> -> status.
NoBatch == [sentences |-> <<>>, i |-> 1, calls |-> <<>>, regs0 |-> {}]

Returned(b) == b.i > Len(b.sentences)

\* mutant of translation_tasks: only the translator created at start-up
\* (line 211) is used
translation_tasks_nl_only(regs) == regs \cap {"nl"}

\* line 265-267: one translate coroutine per entry of translators
translation_tasks(regs) == regs

\* line 271: the list gather returns is dropped; of a call that settled,
\* only that it was made is kept
dropped(calls) ==
  [c \in DOMAIN calls |-> IF calls[c] = "running" THEN "running" ELSE "done"]

\* line 258-271: the for loop from sentence j on, up to the next await
RECURSIVE for_sentence(_, _, _)
for_sentence(b, j, regs) ==
  IF j > Len(b.sentences)
  THEN [b EXCEPT !.i = j, !.calls = dropped(b.calls)]
  ELSE IF strip(b.sentences[j]) # <<>> /\ translation_tasks(regs) # {}
       THEN [b EXCEPT !.i = j,
                      !.calls = [c \in {j} \X translation_tasks(regs)
                                   |-> "running"] @@ dropped(b.calls)]
       ELSE for_sentence(b, j + 1, regs)

\* line 253-271, entered
_translate_sentences(sentences, regs) ==
  LET b == [sentences |-> sentences, i |-> 1, calls |-> <<>>, regs0 |-> regs]
  IN IF sentences = <<>> \/ regs = {}
     THEN [b EXCEPT !.i = Len(sentences) + 1]
     ELSE for_sentence(b, 1, regs)

\* mutant of gather_done: the tasks are started and not awaited
gather_not_awaited(b) == TRUE

\* line 271: asyncio.gather resumes its awaiter once every task has settled
gather_done(b) == \A c \in DOMAIN b.calls : b.calls[c] # "running"

\* mutant of gather_raises: return_exceptions is left False
gather_raises_first_failure(b) ==
  \E c \in DOMAIN b.calls : b.calls[c] = "failed"

\* line 271: return_exceptions=True, a failed translate is a result
gather_raises(b) == FALSE

\* history: translated after call c of batch b settled: translator c[2] was
\* given sentence c[1] and its translate call ran to its end
Translated(b, c) ==
  [translated EXCEPT ![c[2]] =
     [ch \in Content |-> @[ch] + Count(ch, b.sentences[c[1]])]]

\* mutant of cancel: the request never reaches the task
cancel_lost(fl, f) == fl

\* Task.cancel(): a task still running gets CancelledError at its await, and
\* a gather it awaits cancels its children (its batch ends with the calls in
\* flight aborted); a finished task is untouched.
cancel(fl, f) ==
  IF fl[f].st \in {"sleeping", "dispatching"}
  THEN [fl EXCEPT ![f].st = "cancelled", ![f].batch = NoBatch]
  ELSE fl

\* mutant of cancel_pending: the task recorded is left to run
cancel_pending_skipped(pend, fl) == fl

\* line 386-388 / 396-397: if pending_translation_task: ....cancel()
cancel_pending(pend, fl) == IF pend # 0 THEN cancel(fl, pend) ELSE fl

\* line 391-393: asyncio.create_task(_delayed_translation(text, delay))
create_task(fl, text) ==
  Append(fl, [text |-> text, st |-> "sleeping", batch |-> NoBatch])

\* mutant of arm_or_idle: line 387-388 is missing, the task recorded before
\* is replaced without being cancelled
arm_without_cancel(acc, pend, fl) ==
  IF strip(acc) # <<>>
  THEN LET fl2 == create_task(fl, acc) IN [pend |-> Len(fl2), fl |-> fl2]
  ELSE [pend |-> 0, fl |-> cancel_pending(pend, fl)]

\* mutant of arm_or_idle: line 396-398 is missing, an empty buffer leaves
\* the pending task as it is
arm_or_keep(acc, pend, fl) ==
  IF strip(acc) # <<>>
  THEN LET fl2 == create_task(cancel_pending(pend, fl), acc)
       IN [pend |-> Len(fl2), fl |-> fl2]
  ELSE [pend |-> pend, fl |-> fl]

\* line 383-398: arm a flush for the text left over, or go idle
arm_or_idle(acc, pend, fl) ==
  IF strip(acc) # <<>>
  THEN LET fl2 == create_task(cancel_pending(pend, fl), acc)
       IN [pend |-> Len(fl2), fl |-> fl2]
  ELSE [pend |-> 0, fl |-> cancel_pending(pend, fl)]

\* mutant of accepts: the comparison with the last accepted final is lost
accepts_no_dedup(final_text, last) == final_text # <<>>

\* line 326: a final is accepted when not empty and not the last accepted
accepts(final_text, last) == final_text # <<>> /\ final_text # last

\* line 354-359
append_final(acc, final_text) ==
  IF acc # <<>> THEN strip(acc) \o <<SPACE>> \o final_text ELSE final_text

\* no call of llm.chat yet
NoChat == [lang |-> "none", message |-> <<>>, ctx |-> <<>>]

Start ==
  /\ accumulated_text = <<>>
  /\ last_final_transcript = <<>>
  /\ pending_translation_task = 0
  /\ translators = [l \in {"nl"} |-> Translator(l)]
  /\ flushes = <<>>
  /\ tracks = [t \in Tracks |->
                 [pc |-> "wait", final_text |-> <<>>, remaining_text |-> <<>>,
                  batch |-> NoBatch]]
  /\ nFinals = 0
  /\ nDuplicates = 0
  /\ accepted = [ch \in Content |-> 0]
  /\ translated = [l \in languages |-> [ch \in Content |-> 0]]
  /\ appended = <<>>
  /\ chat_ctx = NoChat
  /\ sent = [l \in languages |-> 0]
  /\ lastReq = "none"
  /\ ex_pieces = <<>>
  /\ ex_sentences = <<>>
  /\ ex_remaining = <<>>

Init == Start /\ use_context = FALSE          \* line 109

\* ------------------------------------------------------------- forwarding loop
\* line 320-349: a FINAL_TRANSCRIPT event reaches the loop of track t.  An
\* accepted final is recorded and published (await at line 342); an empty or
\* repeated one is skipped (line 401-402).
Final(t, raw) ==
  /\ UNCHANGED <<aside, lastReq>>
  /\ tracks[t].pc = "wait"
  /\ nFinals < MaxFinals
  /\ nFinals' = nFinals + 1
  /\ LET final_text == strip(raw) IN
     IF accepts(final_text, last_final_transcript)
     THEN /\ last_final_transcript' = final_text
          /\ tracks' = [tracks EXCEPT ![t].pc = "publish",
                                      ![t].final_text = final_text]
          /\ accepted' = [ch \in Content |->
                            accepted[ch] + Count(ch, final_text)]
          /\ UNCHANGED <<accumulated_text, pending_translation_task,
                         translators, flushes, translated, nDuplicates,
                         appended>>
     ELSE /\ nDuplicates' =
               nDuplicates + (IF final_text # <<>> THEN 1 ELSE 0)
          /\ UNCHANGED <<accumulated_text, last_final_transcript,
                         pending_translation_task, translators, flushes,
                         tracks, accepted, translated, appended>>

\* mutant of Interim: the interim text is taken for a final one and put in
\* the buffer
Interim_accumulates(t, raw) ==
  /\ tracks[t].pc = "wait"
  /\ strip(raw) # <<>>
  /\ tracks' = [tracks EXCEPT ![t].pc = "interim"]
  /\ accumulated_text' = append_final(accumulated_text, strip(raw))
  /\ UNCHANGED <<last_final_transcript, pending_translation_task, translators,
                 flushes, nFinals, nDuplicates, accepted, translated,
                 appended, aside, lastReq>>

\* line 298-315: an INTERIM_TRANSCRIPT event reaches the loop of track t; a
\* text that is not blank is published (await at line 315), a blank one is
\* passed over.
Interim(t, raw) ==
  /\ tracks[t].pc = "wait"
  /\ LET interim_text == strip(raw) IN
     tracks' = IF interim_text # <<>>
               THEN [tracks EXCEPT ![t].pc = "interim"]
               ELSE tracks
  /\ UNCHANGED <<accumulated_text, last_final_transcript,
                 pending_translation_task, translators, flushes, nFinals,
                 nDuplicates, accepted, translated, appended, aside, lastReq>>

\* line 315-317: publish_transcription of the interim text has returned, or
\* raised (logged at line 317); the loop waits for the next event.
InterimPublished(t) ==
  /\ tracks[t].pc = "interim"
  /\ tracks' = [tracks EXCEPT ![t].pc = "wait"]
  /\ UNCHANGED <<accumulated_text, last_final_transcript,
                 pending_translation_task, translators, flushes, nFinals,
                 nDuplicates, accepted, translated, appended, aside, lastReq>>

\* line 378-398: the loop of track t after its sentences were translated
Finish(t, remaining_text, pend, fl) ==
  LET r == arm_or_idle(remaining_text, pend, fl) IN
  /\ accumulated_text' = remaining_text
  /\ pending_translation_task' = r.pend
  /\ flushes' = r.fl
  /\ tracks' = [tracks EXCEPT ![t].pc = "wait", ![t].batch = NoBatch,
                              ![t].final_text = <<>>,
                              ![t].remaining_text = <<>>]

\* line 342-398: publish_transcription has returned (or raised, line 348);
\* the final is appended, sentences are extracted and translated, or a flush
\* is armed for the incomplete text.
Published(t) ==
  /\ UNCHANGED <<aside, lastReq>>
  /\ tracks[t].pc = "publish"
  /\ UNCHANGED <<last_final_transcript, translators, nFinals, nDuplicates,
                 accepted, translated>>
  /\ IF DOMAIN translators = {}
     THEN /\ tracks' = [tracks EXCEPT ![t].pc = "wait", ![t].final_text = <<>>]
          /\ UNCHANGED <<accumulated_text, pending_translation_task, flushes,
                         appended>>
     ELSE
       LET acc == append_final(accumulated_text, tracks[t].final_text)
           ex == _extract_complete_sentences(acc)
           since == Append(appended, tracks[t].final_text)  \* history
       IN IF ex.sentences # <<>>
          THEN LET fl == cancel_pending(pending_translation_task, flushes)
                   b == _translate_sentences(ex.sentences, DOMAIN translators)
               IN IF Returned(b)
                  THEN Finish(t, ex.remaining, 0, fl) /\ appended' = since
                  ELSE /\ accumulated_text' = acc
                       /\ pending_translation_task' = 0
                       /\ flushes' = fl
                       /\ tracks' = [tracks EXCEPT
                                       ![t].pc = "translate",
                                       ![t].batch = b,
                                       ![t].remaining_text = ex.remaining]
                       /\ appended' = since
          ELSE LET r == arm_or_idle(acc, pending_translation_task, flushes)
               IN /\ accumulated_text' = acc
                  /\ pending_translation_task' = r.pend
                  /\ flushes' = r.fl
                  /\ tracks' = [tracks EXCEPT ![t].pc = "wait",
                                              ![t].final_text = <<>>]
                  /\ appended' = since

\* Translator.translate (line 130-181) of call c of track t's batch settles:
\* it returns, or the LLM / publish call raises.
TrackSettle(t, c, result) ==
  /\ UNCHANGED <<aside, lastReq>>
  /\ tracks[t].pc = "translate"
  /\ c \in DOMAIN tracks[t].batch.calls
  /\ tracks[t].batch.calls[c] = "running"
  /\ tracks' = [tracks EXCEPT ![t].batch.calls[c] = result]
  /\ translated' = Translated(tracks[t].batch, c)
  /\ UNCHANGED <<accumulated_text, last_final_transcript,
                 pending_translation_task, translators, flushes, nFinals,
                 nDuplicates, accepted, appended>>

\* line 271 -> 258 / 376-398: the gather of track t's current sentence is
\* done; the next sentence is fanned out, or _translate_sentences returns
\* and the loop finishes the transition.
TrackResume(t) ==
  /\ UNCHANGED <<aside, lastReq>>
  /\ tracks[t].pc = "translate"
  /\ gather_done(tracks[t].batch)
  /\ UNCHANGED <<last_final_transcript, translators, nFinals, nDuplicates,
                 accepted, translated>>
  /\ IF gather_raises(tracks[t].batch)
     THEN \* line 403-405: logged and re-raised, the task ends
          /\ tracks' = [tracks EXCEPT ![t].pc = "error"]
          /\ UNCHANGED <<accumulated_text, pending_translation_task, flushes,
                         appended>>
     ELSE LET b == for_sentence(tracks[t].batch, tracks[t].batch.i + 1,
                                DOMAIN translators)
          IN IF Returned(b)
             THEN /\ Finish(t, tracks[t].remaining_text,
                            pending_translation_task, flushes)
                  /\ UNCHANGED appended
             ELSE /\ tracks' = [tracks EXCEPT ![t].batch = b]
                  /\ UNCHANGED <<accumulated_text, pending_translation_task,
                                 flushes, appended>>

\* ------------------------------------------------------------- delayed flush
\* line 278-284: the sleep of flush f is over; if a pending task is recorded
\* and not cancelled, the snapshot is translated as one sentence.
TimerElapsed(f) ==
  /\ UNCHANGED <<aside, lastReq>>
  /\ f \in DOMAIN flushes
  /\ flushes[f].st = "sleeping"
  /\ UNCHANGED <<accumulated_text, last_final_transcript, translators, tracks,
                 nFinals, nDuplicates, accepted, translated, appended>>
  /\ IF pending_translation_task # 0
        /\ flushes[pending_translation_task].st # "cancelled"
     THEN IF strip(flushes[f].text) # <<>>
          THEN LET b == _translate_sentences(<<flushes[f].text>>,
                                             DOMAIN translators)
               IN IF Returned(b)
                  THEN /\ pending_translation_task' = 0
                       /\ flushes' = [flushes EXCEPT ![f].st = "done"]
                  ELSE /\ flushes' = [flushes EXCEPT
                                        ![f].st = "dispatching",
                                        ![f].batch = b]
                       /\ UNCHANGED pending_translation_task
          ELSE /\ pending_translation_task' = 0
               /\ flushes' = [flushes EXCEPT ![f].st = "done"]
     ELSE /\ flushes' = [flushes EXCEPT ![f].st = "done"]
          /\ UNCHANGED pending_translation_task

\* Translator.translate of call c of flush f's batch settles
FlushSettle(f, c, result) ==
  /\ UNCHANGED <<aside, lastReq>>
  /\ f \in DOMAIN flushes
  /\ flushes[f].st = "dispatching"
  /\ c \in DOMAIN flushes[f].batch.calls
  /\ flushes[f].batch.calls[c] = "running"
  /\ flushes' = [flushes EXCEPT ![f].batch.calls[c] = result]
  /\ translated' = Translated(flushes[f].batch, c)
  /\ UNCHANGED <<accumulated_text, last_final_transcript,
                 pending_translation_task, translators, tracks, nFinals,
                 nDuplicates, accepted, appended>>

\* line 283-284: the gather of flush f is done; _translate_sentences
\* returns and the task clears pending_translation_task.
FlushResume(f) ==
  /\ UNCHANGED <<aside, lastReq>>
  /\ f \in DOMAIN flushes
  /\ flushes[f].st = "dispatching"
  /\ gather_done(flushes[f].batch)
  /\ UNCHANGED <<accumulated_text, last_final_transcript, translators, tracks,
                 nFinals, nDuplicates, accepted, translated, appended>>
  /\ IF gather_raises(flushes[f].batch)
     THEN \* not a CancelledError: the task ends with the exception
          /\ flushes' = [flushes EXCEPT ![f].st = "error"]
          /\ UNCHANGED pending_translation_task
     ELSE LET b == for_sentence(flushes[f].batch, flushes[f].batch.i + 1,
                                DOMAIN translators)
          IN IF Returned(b)
             THEN /\ pending_translation_task' = 0
                  /\ flushes' = [flushes EXCEPT ![f].st = "done",
                                                ![f].batch = NoBatch]
             ELSE /\ flushes' = [flushes EXCEPT ![f].batch = b]
                  /\ UNCHANGED pending_translation_task

\* ------------------------------------------------------------- registry
\* mutant of on_attributes_changed: line 472 is missing, a translator is
\* constructed for a language already registered
on_attributes_changed_recreates(lang) ==
  /\ UNCHANGED aside
  /\ translators' =
       IF lang # "" /\ lang # source_language /\ lang \in languages
       THEN [l \in DOMAIN translators \cup {lang} |->
               IF l = lang THEN Translator(lang) ELSE translators[l]]
       ELSE translators
  /\ UNCHANGED session

\* mutant of on_attributes_changed: a new translator takes the place of
\* the registry instead of being added to it
on_attributes_changed_replaces_registry(lang) ==
  /\ UNCHANGED aside
  /\ translators' =
       IF /\ lang # ""
          /\ lang # source_language
          /\ lang \notin DOMAIN translators
          /\ lang \in languages
       THEN [l \in {lang} |-> Translator(lang)]
       ELSE translators
  /\ UNCHANGED session

\* mutant of on_attributes_changed: line 477 is missing, any code that is
\* not registered gets a translator
on_attributes_changed_any_code(lang) ==
  /\ UNCHANGED aside
  /\ translators' =
       IF lang # "" /\ lang \notin DOMAIN translators
       THEN [l \in DOMAIN translators \cup {lang} |->
               IF l = lang THEN Translator(lang) ELSE translators[l]]
       ELSE translators
  /\ UNCHANGED session

\* line 460-499: on_attributes_changed with captions_language = lang
on_attributes_changed(lang) ==
  /\ UNCHANGED aside
  /\ translators' =
       IF lang = "" THEN translators                       \* line 469, 499
       ELSE IF lang = source_language THEN translators     \* line 470
       ELSE IF lang \in DOMAIN translators THEN translators \* line 472
       ELSE IF lang \in languages                          \* line 477
            THEN [l \in DOMAIN translators \cup {lang} |->
                    IF l = lang THEN Translator(lang) ELSE translators[l]]
            ELSE translators                               \* line 496
  /\ UNCHANGED <<accumulated_text, last_final_transcript,
                 pending_translation_task, flushes, tracks, nFinals,
                 nDuplicates, accepted, translated, appended>>

Results == {"ok", "failed"}

Next ==
  \/ \E t \in Tracks, raw \in Interims : Interim(t, raw)
  \/ \E t \in Tracks : InterimPublished(t)
  \/ \E t \in Tracks, raw \in Fragments : Final(t, raw)
  \/ \E t \in Tracks : Published(t)
  \/ \E t \in Tracks, r \in Results :
        \E c \in DOMAIN tracks[t].batch.calls : TrackSettle(t, c, r)
  \/ \E t \in Tracks : TrackResume(t)
  \/ \E f \in DOMAIN flushes : TimerElapsed(f)
  \/ \E f \in DOMAIN flushes, r \in Results :
        \E c \in DOMAIN flushes[f].batch.calls : FlushSettle(f, c, r)
  \/ \E f \in DOMAIN flushes : FlushResume(f)
  \/ \E lang \in ReqCodes : on_attributes_changed(lang) /\ UNCHANGED lastReq

Spec == Init /\ [][Next]_vars

\* A room in which one audio track only is subscribed.
Next1 ==
  \/ \E raw \in Interims : Interim(1, raw)
  \/ InterimPublished(1)
  \/ \E raw \in Fragments : Final(1, raw)
  \/ Published(1)
  \/ \E r \in Results :
        \E c \in DOMAIN tracks[1].batch.calls : TrackSettle(1, c, r)
  \/ TrackResume(1)
  \/ \E f \in DOMAIN flushes : TimerElapsed(f)
  \/ \E f \in DOMAIN flushes, r \in Results :
        \E c \in DOMAIN flushes[f].batch.calls : FlushSettle(f, c, r)
  \/ \E f \in DOMAIN flushes : FlushResume(f)
  \/ \E lang \in ReqCodes : on_attributes_changed(lang) /\ UNCHANGED lastReq

Spec1 == Init /\ [][Next1]_vars

\* ------------------------------------------------------------- translators
\* One whole call of translators[l].translate (line 130-181) with the next
\* sentence, the calls on a translator coming one after the other.
Translate(l) ==
  /\ l \in DOMAIN translators
  /\ sent[l] < MaxCalls
  /\ LET message == NthSentence(sent[l] + 1)
         r == translate(translators[l], message, use_context)
     IN /\ translators' = [translators EXCEPT ![l] = r.self]
        /\ chat_ctx' = [lang |-> l, message |-> message, ctx |-> r.chat_ctx]
  /\ sent' = [sent EXCEPT ![l] = sent[l] + 1]
  /\ lastReq' = "none"          \* no request handled since this call
  /\ UNCHANGED <<session, use_context, ex_pieces, ex_sentences,
                 ex_remaining>>

\* The translators and the registry taken alone, in either context mode
\* (line 109 is the toggle): requests for languages and translate calls.
InitT == Start /\ use_context \in BOOLEAN

NextT ==
  \/ \E l \in languages : Translate(l)
  \/ \E lang \in ReqCodes : on_attributes_changed(lang) /\ lastReq' = lang

SpecT == InitT /\ [][NextT]_vars

\* ------------------------------------------------------------- extractor
\* The texts the extractor is tried on: every text of at most MaxPieceLen
\* characters over a letter, the space and the full stop.
ExChars == {"a", SPACE, "."}
Pieces == UNION {[1..n -> ExChars] : n \in 0..MaxPieceLen}

\* _extract_complete_sentences applied to the remainder it returned last
\* followed by the next text (to the text itself the first time).
Extract(piece) ==
  /\ Len(ex_pieces) < MaxPieces
  /\ LET r == _extract_complete_sentences(ex_remaining \o piece) IN
     /\ ex_sentences' = ex_sentences \o r.sentences
     /\ ex_remaining' = r.remaining
  /\ ex_pieces' = Append(ex_pieces, piece)
  /\ UNCHANGED <<session, translators, use_context, chat_ctx, sent, lastReq>>

NextX == \E piece \in Pieces : Extract(piece)

SpecX == Init /\ [][NextX]_vars

\* ------------------------------------------------------------- properties
Live(f) == flushes[f].st \in {"sleeping", "dispatching"}

\* C1: a final whose stripped text equals the last accepted final is skipped
\* whole: the step that delivers it changes neither the buffer, nor the last
\* accepted final, nor the pending flush (not cancelled, not re-armed), nor
\* any forwarding loop or translate call.
C1_DuplicateFinalSkipped ==
  [][\A t \in Tracks, raw \in Fragments :
       (Final(t, raw) /\ strip(raw) = last_final_transcript)
         => UNCHANGED <<accumulated_text, last_final_transcript,
                        pending_translation_task, flushes, tracks,
                        translated, accepted>>]_vars

\* C1 witness: "a" was accepted and armed a flush, then "a" came again and
\* was skipped; the one flush is still waiting over the unchanged buffer.
C1_Witness ==
  /\ nDuplicates = 1
  /\ nFinals = 2
  /\ accumulated_text = <<"a">>
  /\ Len(flushes) = 1
  /\ flushes[1].st = "sleeping"
  /\ pending_translation_task = 1

\* C2: no content is sent to a translator more often than it was accepted:
\* for every language and content character, the occurrences in the
\* sentences handed to that translator do not exceed those in the accepted
\* finals.
C2_NoDuplicateOutput ==
  \A l \in languages, ch \in Content : translated[l][ch] <= accepted[ch]

\* C3: a flush cancelled while it waits never dispatches (it stays cancelled,
\* with no batch), and a flush that dispatches is the one recorded in
\* pending_translation_task and the last one armed.
C3_CancelledFlushNeverDispatches ==
  [][\A f \in DOMAIN flushes :
       /\ flushes[f].st = "cancelled"
            => flushes'[f].st = "cancelled" /\ flushes'[f].batch = NoBatch
       /\ flushes'[f].st = "dispatching"
            => f = Len(flushes') /\ pending_translation_task' = f]_vars

\* C3 witness: the first flush was cancelled while waiting because the next
\* final completed a sentence, which is being translated.
C3_Witness ==
  /\ Len(flushes) = 1
  /\ flushes[1].st = "cancelled"
  /\ \E t \in Tracks : tracks[t].pc = "translate"
  /\ translated["nl"]["a"] = 0

\* C4: at most one flush is live (waiting or dispatching) in any state.
C4_AtMostOneLiveFlush ==
  Cardinality({f \in DOMAIN flushes : Live(f)}) <= 1

\* C4 witness: a second flush was armed; the first one is cancelled.
C4_Witness ==
  /\ Len(flushes) = 2
  /\ flushes[1].st = "cancelled"
  /\ flushes[2].st = "sleeping"
  /\ pending_translation_task = 2

\* the finals of fs joined by single spaces
RECURSIVE Join(_)
Join(fs) ==
  IF fs = <<>> THEN <<>>
  ELSE IF Len(fs) = 1 THEN fs[1]
       ELSE fs[1] \o <<SPACE>> \o Join(Tail(fs))

\* Join(fs) less the prefix that forms complete sentences
Unextracted(fs) ==
  LET ex == _extract_complete_sentences(Join(fs))
  IN IF ex.sentences = <<>> THEN Join(fs) ELSE ex.remaining

\* C5: whenever no transition is under way (every accepted final has been
\* processed to the end), the buffer is the accepted finals joined by single
\* spaces, in the order they were appended, less the prefix extracted as
\* complete sentences.  (The finals before the last drain end in extracted
\* sentences, so joining all finals or those since the drain is the same.)
C5_BufferInvariant ==
  (\A t \in Tracks : tracks[t].pc = "wait")
    => accumulated_text = Unextracted(appended)

\* the batches under way: of the forwarding loops and of the flush tasks
Batches ==
  {tracks[t].batch : t \in {u \in Tracks : tracks[u].pc = "translate"}}
    \cup {flushes[f].batch :
            f \in {g \in DOMAIN flushes : flushes[g].st = "dispatching"}}

\* C6: within a batch, a translator is never given sentence k while one of
\* its calls for an earlier sentence is running, and it was given every
\* earlier sentence fanned out while it was registered.
C6_PerLanguageOrder ==
  \A b \in Batches : \A c \in DOMAIN b.calls : \A j \in 1..(c[1] - 1) :
     /\ c[2] \in b.regs0 => <<j, c[2]>> \in DOMAIN b.calls
     /\ <<j, c[2]>> \in DOMAIN b.calls => b.calls[<<j, c[2]>>] # "running"

\* C6 witness: the second sentence of a batch is running on nl after the
\* first one settled there.
C6_Witness ==
  \E b \in Batches :
     /\ {<<1, "nl">>, <<2, "nl">>} \subseteq DOMAIN b.calls
     /\ b.calls[<<1, "nl">>] = "done"
     /\ b.calls[<<2, "nl">>] = "running"

\* the translate calls in flight on the translator of language l
InFlight(l) ==
  UNION { { <<"track", t, c>> :
              c \in {d \in DOMAIN tracks[t].batch.calls :
                       d[2] = l /\ tracks[t].batch.calls[d] = "running"} } :
          t \in Tracks }
    \cup
  UNION { { <<"flush", f, c>> :
              c \in {d \in DOMAIN flushes[f].batch.calls :
                       d[2] = l /\ flushes[f].batch.calls[d] = "running"} } :
          f \in DOMAIN flushes }

\* C7: no translator has two translate calls in flight at once.
C7_TranslatorSerialized ==
  \A l \in languages : Cardinality(InFlight(l)) <= 1

\* every sentence of b went to every translator registered at its start
Complete(b) ==
  \A j \in 1..Len(b.sentences), l \in b.regs0 : <<j, l>> \in DOMAIN b.calls

HasFailure(b) == \E c \in DOMAIN b.calls : b.calls[c] = "failed"

\* the calls of sentence b.i
Current(b) == {c \in DOMAIN b.calls : c[1] = b.i}

\* what a batch may do in one step when nothing is raised or aborted: stay,
\* have calls of its sentence settle (the settled ones keep their result),
\* or, all calls settled, go on to the next sentence on every translator
SettleStep(b, b2) ==
  /\ b2.i = b.i
  /\ DOMAIN b2.calls = DOMAIN b.calls
  /\ \A c \in DOMAIN b.calls :
        IF b.calls[c] = "running"
        THEN b2.calls[c] \in {"running"} \cup Results
        ELSE b2.calls[c] = b.calls[c]

NextSentenceStep(b, b2) ==
  /\ gather_done(b)
  /\ b2.i > b.i
  /\ b2.i <= Len(b.sentences)
  /\ Current(b2) = {b2.i} \X DOMAIN translators
  /\ \A c \in Current(b2) : b2.calls[c] = "running"

\* C8: once a translate call of a batch has failed, the batch goes on as if
\* it had not: the other calls of the sentence stay in flight until they
\* settle, the next sentence is then given to every translator, and the
\* batch returns to its caller (the loop goes back to waiting, the flush
\* task ends normally) only after its last sentence; nothing is raised.
\* A flush task may still be cancelled by a later final.
C8_FailureIsolated ==
  [][/\ \A t \in Tracks :
          (tracks[t].pc = "translate" /\ HasFailure(tracks[t].batch))
            => \/ /\ tracks'[t].pc = "translate"
                  /\ \/ SettleStep(tracks[t].batch, tracks'[t].batch)
                     \/ NextSentenceStep(tracks[t].batch, tracks'[t].batch)
               \/ /\ tracks'[t].pc = "wait"
                  /\ gather_done(tracks[t].batch)
                  /\ tracks[t].batch.i = Len(tracks[t].batch.sentences)
     /\ \A f \in DOMAIN flushes :
          (flushes[f].st = "dispatching" /\ HasFailure(flushes[f].batch))
            => \/ /\ flushes'[f].st = "dispatching"
                  /\ \/ SettleStep(flushes[f].batch, flushes'[f].batch)
                     \/ NextSentenceStep(flushes[f].batch, flushes'[f].batch)
               \/ /\ flushes'[f].st = "done"
                  /\ gather_done(flushes[f].batch)
                  /\ flushes[f].batch.i = Len(flushes[f].batch.sentences)
               \/ flushes'[f].st = "cancelled"]_vars

\* C8 witness: the call of nl failed for the first sentence of a batch, the
\* call of fr for that sentence returned all the same, and sentences remain.
C8_Witness ==
  \E t \in Tracks :
     /\ tracks[t].pc = "translate"
     /\ tracks[t].batch.i = 1
     /\ Len(tracks[t].batch.sentences) > 1
     /\ DOMAIN tracks[t].batch.calls = {<<1, "nl">>, <<1, "fr">>}
     /\ tracks[t].batch.calls[<<1, "nl">>] = "failed"
     /\ tracks[t].batch.calls[<<1, "fr">>] = "ok"

\* the state of a batch when _translate_sentences returns
ReturnOK(b) ==
  /\ gather_done(b)
  /\ Complete(b)
  /\ DOMAIN b.calls \subseteq (1..Len(b.sentences)) \X DOMAIN translators
  /\ DOMAIN translators = b.regs0
       => Cardinality(DOMAIN b.calls)
            = Len(b.sentences) * Cardinality(DOMAIN translators)

\* C9: a sentence is fanned out to exactly the translators registered at
\* that moment, one call each, and _translate_sentences returns only when
\* every sentence went to every translator registered since the start and
\* every call has settled: |sentences| x |translators| calls when the
\* registry did not change.
C9_DispatchComplete ==
  [][/\ \A t \in Tracks :
          /\ (tracks[t].pc = "translate" /\ tracks'[t].pc = "wait")
               => ReturnOK(tracks[t].batch)
          /\ (/\ tracks'[t].pc = "translate"
              /\ \/ tracks[t].pc # "translate"
                 \/ tracks'[t].batch.i # tracks[t].batch.i)
               => Current(tracks'[t].batch)
                    = {tracks'[t].batch.i} \X DOMAIN translators
     /\ \A f \in DOMAIN flushes :
          /\ (flushes[f].st = "dispatching" /\ flushes'[f].st = "done")
               => ReturnOK(flushes[f].batch)
          /\ (flushes[f].st = "sleeping" /\ flushes'[f].st = "dispatching")
               => DOMAIN flushes'[f].batch.calls = {1} \X DOMAIN translators
    ]_vars

\* C9 witness: a batch of three sentences with two translators registered
\* has made its six calls and all have settled; it is about to return.
C9_Witness ==
  \E t \in Tracks :
     /\ tracks[t].pc = "translate"
     /\ Len(tracks[t].batch.sentences) = 3
     /\ tracks[t].batch.i = 3
     /\ DOMAIN translators = {"nl", "fr"}
     /\ tracks[t].batch.regs0 = {"nl", "fr"}
     /\ Cardinality(DOMAIN tracks[t].batch.calls) = 6
     /\ gather_done(tracks[t].batch)

\* C10: a flush armed with a non-empty snapshot that has not finished its
\* dispatch is cancelled only by a step that appends a newly accepted final
\* to the buffer; with no further final it is left to sleep, dispatch its
\* snapshot and end.
C10_FlushCancelledOnlyByNewFinal ==
  [][\A f \in DOMAIN flushes :
        (Live(f) /\ flushes'[f].st = "cancelled")
          => Len(appended') > Len(appended)]_vars

\* C11: a request for a code already registered leaves the registry and
\* every Translator (context, message counter) as they are; a request for a
\* supported code that is neither registered nor the source language adds
\* one new Translator under that code and changes no other entry.
C11_EnsureIdempotent ==
  [][\A lang \in ReqCodes :
        (on_attributes_changed(lang) /\ lastReq' = lang)
          => /\ lang \in DOMAIN translators => translators' = translators
             /\ (/\ lang \notin DOMAIN translators
                 /\ lang \in languages
                 /\ lang # source_language)
                  => /\ DOMAIN translators' = DOMAIN translators \cup {lang}
                     /\ translators'[lang] = Translator(lang)
                     /\ \A l \in DOMAIN translators :
                           translators'[l] = translators[l]]_vars

\* C11 witness: nl was requested again after its translator had built up a
\* rolling context of three messages, beside the translator added for fr;
\* the context is still there.
C11_Witness ==
  /\ use_context
  /\ lastReq = "nl"
  /\ DOMAIN translators = {"nl", "fr"}
  /\ translators["nl"].message_count = 3
  /\ Len(translators["nl"].context) = 4

\* C12: a request for a code outside the languages table, or for the source
\* language, changes neither the registry nor anything else of the session:
\* no translator is made, no loop or task ends.
C12_RejectedRequestChangesNothing ==
  [][\A lang \in ReqCodes :
        (/\ on_attributes_changed(lang)
         /\ lastReq' = lang
         /\ lang \notin languages \/ lang = source_language)
          => UNCHANGED <<translators, session, aside>>]_vars

\* C12 witness: the unsupported code was requested last, after fr had been
\* added and used; the registry holds nl and fr only.
C12_Witness ==
  /\ lastReq = "xx"
  /\ DOMAIN translators = {"nl", "fr"}
  /\ sent["fr"] > 0

\* C13: in rolling mode the 11th call on a translator passes the system
\* prompt followed by the 11th message, and leaves the counter at 1.
C13_EleventhCallContext ==
  \A l \in DOMAIN translators :
     (use_context /\ chat_ctx.lang = l /\ sent[l] = 11)
       => /\ chat_ctx.ctx = <<system_message, user_message(NthSentence(11))>>
          /\ translators[l].message_count = 1

\* C13 witness: the 11th call on the Dutch translator in rolling mode
C13_Witness ==
  /\ use_context
  /\ chat_ctx.lang = "nl"
  /\ sent["nl"] = 11
  /\ chat_ctx.message = NthSentence(11)

\* C18: in rolling mode the context of every call of llm.chat ends with the
\* message being translated, as a user message.
C18_ContextEndsWithMessage ==
  (use_context /\ chat_ctx # NoChat)
    => chat_ctx.ctx[Len(chat_ctx.ctx)] = user_message(chat_ctx.message)

\* the texts of ts one after the other
RECURSIVE Flatten(_)
Flatten(ts) == IF ts = <<>> THEN <<>> ELSE Head(ts) \o Flatten(Tail(ts))

\* s without its spaces
NoSpace(s) == SelectSeq(s, LAMBDA ch : ch # SPACE)

\* C14: extracting from a first text, then from the remainder followed by a
\* second text, gives the sentences and the remainder of one extraction from
\* the first text followed by the second.
C14_Restartable ==
  Len(ex_pieces) = 2
    => [sentences |-> ex_sentences, remaining |-> ex_remaining]
         = _extract_complete_sentences(ex_pieces[1] \o ex_pieces[2])

\* C15: the sentences in order followed by the remainder are the input but
\* for its spaces: no letter or punctuation mark is lost, repeated or moved
\* (also over extractions that carry the remainder on); an input of spaces
\* only, or an empty one, gives no sentence and an empty remainder.
C15_Reconstruction ==
  /\ NoSpace(Flatten(ex_sentences) \o ex_remaining)
       = NoSpace(Flatten(ex_pieces))
  /\ (Len(ex_pieces) = 1 /\ strip(ex_pieces[1]) = <<>>)
       => ex_sentences = <<>> /\ ex_remaining = <<>>

\* C15 witness: one extraction that returned a sentence and a remainder
C15_Witness ==
  /\ Len(ex_pieces) = 1
  /\ ex_sentences # <<>>
  /\ ex_remaining # <<>>

\* C16: a flush that has begun to dispatch its snapshot is not cancelled:
\* no step takes a dispatching flush to cancelled.
C16_DispatchingFlushNotCancelled ==
  [][\A f \in DOMAIN flushes :
        flushes[f].st = "dispatching" => flushes'[f].st # "cancelled"]_vars

\* C17: while the loop of one audio track is in the middle of a transition,
\* a step of another track's loop changes neither the buffer, nor the last
\* accepted final, nor the pending flush that the first is working on.
C17_PerSourceState ==
  [][\A t \in Tracks, u \in Tracks :
        (/\ t # u
         /\ tracks[t].pc \in {"publish", "translate"}
         /\ tracks'[u] # tracks[u])
          => UNCHANGED <<accumulated_text, last_final_transcript,
                         pending_translation_task>>]_vars

\* C19: a live flush exists only while the buffer is not empty; so a
\* transition that ends with an empty buffer leaves no live flush.
C19_IdleWhenBufferEmpty ==
  accumulated_text = <<>> => \A f \in DOMAIN flushes : ~Live(f)

\* C19 witness: a transition has ended with an empty buffer and the flush
\* armed before it is cancelled.
C19_Witness ==
  /\ \A t \in Tracks : tracks[t].pc = "wait"
  /\ accumulated_text = <<>>
  /\ nFinals = 2
  /\ Len(flushes) = 1
  /\ flushes[1].st = "cancelled"

\* C20: an interim transcript, from its arrival to the end of its
\* publication, leaves the buffer, the last accepted final, the pending flush
\* and every flush task (none cancelled, none armed), the registry and the
\* translate calls made as they are.
C20_InterimPreservesFrame ==
  [][\A t \in Tracks :
        ((\E raw \in Interims : Interim(t, raw)) \/ InterimPublished(t))
          => UNCHANGED <<accumulated_text, last_final_transcript,
                         pending_translation_task, flushes, translators,
                         translated, accepted, appended>>
             /\ \A u \in Tracks : tracks'[u].batch = tracks[u].batch]_vars

\* C20 witness: an interim transcript is being published while a flush is
\* armed for the text in the buffer.
C20_Witness ==
  \E t \in Tracks :
     /\ tracks[t].pc = "interim"
     /\ accumulated_text = <<"a">>
     /\ pending_translation_task = 1
     /\ flushes[1].st = "sleeping"

\* C21: in fresh mode a translate call passes llm.chat the system prompt
\* followed by one user message holding its text, and leaves every
\* Translator of the registry (context, message counter) as it was made,
\* whatever the number and order of the calls.
C21_FreshModeStateless ==
  [][\A l \in languages :
        (~use_context /\ sent'[l] = sent[l] + 1)
          => /\ chat_ctx' =
                  [lang |-> l, message |-> NthSentence(sent'[l]),
                   ctx |-> <<system_message,
                             user_message(NthSentence(sent'[l]))>>]
             /\ translators' = translators
             /\ translators[l] = Translator(l)]_vars

\* C21 witness: in fresh mode, three calls on the Dutch translator and two
\* on the French one, the last on the French one.
C21_Witness ==
  /\ ~use_context
  /\ sent["nl"] = 3
  /\ sent["fr"] = 2
  /\ chat_ctx.lang = "fr"

\* C22: the registry only grows: a step removes no key and leaves every
\* Translator bound to its language, a request leaves the Translators there
\* already as they are; and the keys are supported languages other than the
\* source language.
C22_RegistryGrowsOnly ==
  [][/\ DOMAIN translators \subseteq DOMAIN translators'
     /\ \A l \in DOMAIN translators : translators'[l].lang = l
     /\ \A lang \in ReqCodes :
           (on_attributes_changed(lang) /\ lastReq' = lang)
             => \A l \in DOMAIN translators :
                   translators'[l] = translators[l]
     /\ DOMAIN translators \subseteq languages \ {source_language}
     /\ DOMAIN translators' \subseteq languages \ {source_language}]_vars

\* C22 witness: after fr was added and the Dutch translator used, the
\* source language was requested; the registry holds nl and fr.
C22_Witness ==
  /\ lastReq = source_language
  /\ DOMAIN translators = {"nl", "fr"}
  /\ sent["nl"] > 0

\* s neither begins nor ends with a space
Trimmed(s) == s = <<>> \/ (s[1] # SPACE /\ s[Len(s)] # SPACE)

\* s is a content token (no terminal punctuation, possibly empty) followed
\* by a run of one or more terminal punctuation characters
ContentThenPunct(s) ==
  \E k \in 0..(Len(s) - 1) :
     /\ \A j \in 1..k : s[j] \notin Punct
     /\ \A j \in (k + 1)..Len(s) : s[j] \in Punct

\* the content after the last terminal punctuation character of text
TrailingContent(text) ==
  LET ps == {j \in 1..Len(text) : text[j] \in Punct}
      last == IF ps = {} THEN 0 ELSE CHOOSE j \in ps : \A k \in ps : k <= j
  IN SubSeq(text, last + 1, Len(text))

\* s is the beginning of t
IsPrefix(s, t) == Len(s) <= Len(t) /\ s = SubSeq(t, 1, Len(s))

\* C23: every extracted sentence is trimmed and is a content token followed
\* by a run of terminal punctuation; the sentences come in the order of the
\* input; the remainder is trimmed and holds no terminal punctuation, and
\* after one extraction it is the input's trailing content less the spaces
\* around it.
C23_OutputShape ==
  /\ \A i \in 1..Len(ex_sentences) :
        /\ Trimmed(ex_sentences[i])
        /\ ContentThenPunct(ex_sentences[i])
  /\ IsPrefix(NoSpace(Flatten(ex_sentences)), NoSpace(Flatten(ex_pieces)))
  /\ Trimmed(ex_remaining)
  /\ \A j \in 1..Len(ex_remaining) : ex_remaining[j] \notin Punct
  /\ Len(ex_pieces) = 1
       => NoSpace(ex_remaining) = NoSpace(TrailingContent(ex_pieces[1]))

\* C23 witness: a sentence of a letter and a full stop was extracted from
\* the first text, and the second, a space and a letter, left the letter as
\* remainder.
C23_Witness ==
  /\ ex_pieces = << <<"a", ".">>, <<SPACE, "a">> >>
  /\ ex_sentences = << <<"a", ".">> >>
  /\ ex_remaining = <<"a">>

\* C24: a flush that begins to dispatch holds a snapshot equal to the
\* buffer at that moment; more, a flush that is asleep always holds the
\* text of the buffer, every change of the buffer cancelling or replacing it.
C24_SnapshotFresh ==
  /\ \A f \in DOMAIN flushes :
        flushes[f].st = "sleeping" => flushes[f].text = accumulated_text
  /\ \A f \in DOMAIN flushes :
        flushes[f].st = "dispatching"
          => /\ flushes[f].batch.sentences = <<flushes[f].text>>
             /\ flushes[f].text = accumulated_text

\* C24 witness: the buffer changed after a first flush was armed; the first
\* flush is cancelled and the second dispatches the text of the buffer.
C24_Witness ==
  /\ Len(flushes) = 2
  /\ flushes[1].st = "cancelled"
  /\ flushes[2].st = "dispatching"
  /\ flushes[1].text # flushes[2].text
  /\ flushes[2].text = accumulated_text

====
